---------------------------- MODULE Spec2Model ----------------------------
(***************************************************************************)
(* HTTPStatusCodes: a TypeScript module of HTTP status codes.  The source  *)
(* declares, for every status, a constant (`export const N = v;`) and a    *)
(* literal type alias of the same name (`export type N = v;`), five union  *)
(* types grouping the aliases by class, and the union HTTPStatus of the    *)
(* five.  The model holds the declarations as data, the module namespace   *)
(* a host program gets from `import * as HTTP`, and the Status Code        *)
(* Registry of the specification (lookup by code, by name, by category)    *)
(* built over those declarations.  The documentation comments of the       *)
(* source carry no behaviour and are left out.                             *)
(***************************************************************************)
EXTENDS Integers, Sequences, FiniteSets, TLC

VARIABLES HTTP, registry, call, result, calls, results

vars == <<HTTP, registry, call, result, calls, results>>

\* ---------------------------------------------------------------------
\* Value-level declarations of HTTPStatusCodes.ts: `export const N = v;`
\* ---------------------------------------------------------------------
CONTINUE == 100
SWITCHING_PROTOCOLS == 101
PROCESSING == 102
EARLY_HINTS == 103
OK == 200
CREATED == 201
ACCEPTED == 202
NON_AUTHORITATIVE_INFORMATION == 203
NO_CONTENT == 204
RESET_CONTENT == 205
PARTIAL_CONTENT == 206
MULTI_STATUS == 207
ALREADY_REPORTED == 208
IM_USED == 226
MULTIPLE_CHOICES == 300
MOVED_PERMANENTLY == 301
FOUND == 302
SEE_OTHER == 303
NOT_MODIFIED == 304
USE_PROXY == 305
SWITCH_PROXY == 306
TEMPORARY_REDIRECT == 307
PERMANENT_REDIRECT == 308
BAD_REQUEST == 400
UNAUTHORISED == 401
PAYMENT_REQUIRED == 402
FORBIDDEN == 403
NOT_FOUND == 404
METHOD_NOT_ALLOWED == 405
NOT_ACCEPTABLE == 406
PROXY_AUTHENTICATION_REQUIRED == 407
REQUEST_TIMEOUT == 408
CONFLICT == 409
GONE == 410
LENGTH_REQUIRED == 411
PRECONDITION_FAILED == 412
PAYLOAD_TOO_LARGE == 413
URI_TOO_LONG == 414
UNSUPPORTED_MEDIA_TYPE == 415
RANGE_NOT_SATISFIABLE == 416
EXPECTATION_FAILED == 417
IM_A_TEAPOT == 418
MISDIRECTED_REQUEST == 421
UNPROCESSABLE_ENTRY == 422
LOCKED == 423
FAILED_DEPENDENCY == 424
TOO_EARLY == 425
UPGRADE_REQUIRED == 426
PRECONDITION_REQUIRED == 428
TOO_MANY_REQUESTS == 429
REQUEST_HEADER_FIELDS_TOO_LARGE == 431
UNAVAILABLE_FOR_LEGAL_REASONS == 451
INTERNAL_SERVER_ERROR == 500
NOT_IMPLEMENTED == 501
BAD_GATEWAY == 502
SERVICE_UNAVAILABLE == 503
GATEWAY_TIMEOUT == 504
HTTP_VERSION_NOT_SUPPORTED == 505
VARIANT_ALSO_NEGOTIATES == 506
INSUFFICIENT_STORAGE == 507
LOOP_DETECTED == 508
NOT_EXTENDED == 510
NETWORK_AUTHENTICATION_REQUIRED == 511

\* The `export const` declarations in source order, each with the name it
\* declares and the value it is initialised with.
ValueDeclarations ==
  << [name |-> "CONTINUE", value |-> CONTINUE],
     [name |-> "SWITCHING_PROTOCOLS", value |-> SWITCHING_PROTOCOLS],
     [name |-> "PROCESSING", value |-> PROCESSING],
     [name |-> "EARLY_HINTS", value |-> EARLY_HINTS],
     [name |-> "OK", value |-> OK],
     [name |-> "CREATED", value |-> CREATED],
     [name |-> "ACCEPTED", value |-> ACCEPTED],
     [name |-> "NON_AUTHORITATIVE_INFORMATION", value |-> NON_AUTHORITATIVE_INFORMATION],
     [name |-> "NO_CONTENT", value |-> NO_CONTENT],
     [name |-> "RESET_CONTENT", value |-> RESET_CONTENT],
     [name |-> "PARTIAL_CONTENT", value |-> PARTIAL_CONTENT],
     [name |-> "MULTI_STATUS", value |-> MULTI_STATUS],
     [name |-> "ALREADY_REPORTED", value |-> ALREADY_REPORTED],
     [name |-> "IM_USED", value |-> IM_USED],
     [name |-> "MULTIPLE_CHOICES", value |-> MULTIPLE_CHOICES],
     [name |-> "MOVED_PERMANENTLY", value |-> MOVED_PERMANENTLY],
     [name |-> "FOUND", value |-> FOUND],
     [name |-> "SEE_OTHER", value |-> SEE_OTHER],
     [name |-> "NOT_MODIFIED", value |-> NOT_MODIFIED],
     [name |-> "USE_PROXY", value |-> USE_PROXY],
     [name |-> "SWITCH_PROXY", value |-> SWITCH_PROXY],
     [name |-> "TEMPORARY_REDIRECT", value |-> TEMPORARY_REDIRECT],
     [name |-> "PERMANENT_REDIRECT", value |-> PERMANENT_REDIRECT],
     [name |-> "BAD_REQUEST", value |-> BAD_REQUEST],
     [name |-> "UNAUTHORISED", value |-> UNAUTHORISED],
     [name |-> "PAYMENT_REQUIRED", value |-> PAYMENT_REQUIRED],
     [name |-> "FORBIDDEN", value |-> FORBIDDEN],
     [name |-> "NOT_FOUND", value |-> NOT_FOUND],
     [name |-> "METHOD_NOT_ALLOWED", value |-> METHOD_NOT_ALLOWED],
     [name |-> "NOT_ACCEPTABLE", value |-> NOT_ACCEPTABLE],
     [name |-> "PROXY_AUTHENTICATION_REQUIRED", value |-> PROXY_AUTHENTICATION_REQUIRED],
     [name |-> "REQUEST_TIMEOUT", value |-> REQUEST_TIMEOUT],
     [name |-> "CONFLICT", value |-> CONFLICT],
     [name |-> "GONE", value |-> GONE],
     [name |-> "LENGTH_REQUIRED", value |-> LENGTH_REQUIRED],
     [name |-> "PRECONDITION_FAILED", value |-> PRECONDITION_FAILED],
     [name |-> "PAYLOAD_TOO_LARGE", value |-> PAYLOAD_TOO_LARGE],
     [name |-> "URI_TOO_LONG", value |-> URI_TOO_LONG],
     [name |-> "UNSUPPORTED_MEDIA_TYPE", value |-> UNSUPPORTED_MEDIA_TYPE],
     [name |-> "RANGE_NOT_SATISFIABLE", value |-> RANGE_NOT_SATISFIABLE],
     [name |-> "EXPECTATION_FAILED", value |-> EXPECTATION_FAILED],
     [name |-> "IM_A_TEAPOT", value |-> IM_A_TEAPOT],
     [name |-> "MISDIRECTED_REQUEST", value |-> MISDIRECTED_REQUEST],
     [name |-> "UNPROCESSABLE_ENTRY", value |-> UNPROCESSABLE_ENTRY],
     [name |-> "LOCKED", value |-> LOCKED],
     [name |-> "FAILED_DEPENDENCY", value |-> FAILED_DEPENDENCY],
     [name |-> "TOO_EARLY", value |-> TOO_EARLY],
     [name |-> "UPGRADE_REQUIRED", value |-> UPGRADE_REQUIRED],
     [name |-> "PRECONDITION_REQUIRED", value |-> PRECONDITION_REQUIRED],
     [name |-> "TOO_MANY_REQUESTS", value |-> TOO_MANY_REQUESTS],
     [name |-> "REQUEST_HEADER_FIELDS_TOO_LARGE", value |-> REQUEST_HEADER_FIELDS_TOO_LARGE],
     [name |-> "UNAVAILABLE_FOR_LEGAL_REASONS", value |-> UNAVAILABLE_FOR_LEGAL_REASONS],
     [name |-> "INTERNAL_SERVER_ERROR", value |-> INTERNAL_SERVER_ERROR],
     [name |-> "NOT_IMPLEMENTED", value |-> NOT_IMPLEMENTED],
     [name |-> "BAD_GATEWAY", value |-> BAD_GATEWAY],
     [name |-> "SERVICE_UNAVAILABLE", value |-> SERVICE_UNAVAILABLE],
     [name |-> "GATEWAY_TIMEOUT", value |-> GATEWAY_TIMEOUT],
     [name |-> "HTTP_VERSION_NOT_SUPPORTED", value |-> HTTP_VERSION_NOT_SUPPORTED],
     [name |-> "VARIANT_ALSO_NEGOTIATES", value |-> VARIANT_ALSO_NEGOTIATES],
     [name |-> "INSUFFICIENT_STORAGE", value |-> INSUFFICIENT_STORAGE],
     [name |-> "LOOP_DETECTED", value |-> LOOP_DETECTED],
     [name |-> "NOT_EXTENDED", value |-> NOT_EXTENDED],
     [name |-> "NETWORK_AUTHENTICATION_REQUIRED", value |-> NETWORK_AUTHENTICATION_REQUIRED] >>

\* The `export type N = literal;` declarations in source order: each alias
\* shares its name with a constant and names a numeric literal type.
TypeDeclarations ==
  << [name |-> "CONTINUE", literal |-> 100],
     [name |-> "SWITCHING_PROTOCOLS", literal |-> 101],
     [name |-> "PROCESSING", literal |-> 102],
     [name |-> "EARLY_HINTS", literal |-> 103],
     [name |-> "OK", literal |-> 200],
     [name |-> "CREATED", literal |-> 201],
     [name |-> "ACCEPTED", literal |-> 202],
     [name |-> "NON_AUTHORITATIVE_INFORMATION", literal |-> 203],
     [name |-> "NO_CONTENT", literal |-> 204],
     [name |-> "RESET_CONTENT", literal |-> 205],
     [name |-> "PARTIAL_CONTENT", literal |-> 206],
     [name |-> "MULTI_STATUS", literal |-> 207],
     [name |-> "ALREADY_REPORTED", literal |-> 208],
     [name |-> "IM_USED", literal |-> 226],
     [name |-> "MULTIPLE_CHOICES", literal |-> 300],
     [name |-> "MOVED_PERMANENTLY", literal |-> 301],
     [name |-> "FOUND", literal |-> 302],
     [name |-> "SEE_OTHER", literal |-> 303],
     [name |-> "NOT_MODIFIED", literal |-> 304],
     [name |-> "USE_PROXY", literal |-> 305],
     [name |-> "SWITCH_PROXY", literal |-> 306],
     [name |-> "TEMPORARY_REDIRECT", literal |-> 307],
     [name |-> "PERMANENT_REDIRECT", literal |-> 308],
     [name |-> "BAD_REQUEST", literal |-> 400],
     [name |-> "UNAUTHORISED", literal |-> 401],
     [name |-> "PAYMENT_REQUIRED", literal |-> 402],
     [name |-> "FORBIDDEN", literal |-> 403],
     [name |-> "NOT_FOUND", literal |-> 404],
     [name |-> "METHOD_NOT_ALLOWED", literal |-> 405],
     [name |-> "NOT_ACCEPTABLE", literal |-> 406],
     [name |-> "PROXY_AUTHENTICATION_REQUIRED", literal |-> 407],
     [name |-> "REQUEST_TIMEOUT", literal |-> 408],
     [name |-> "CONFLICT", literal |-> 409],
     [name |-> "GONE", literal |-> 410],
     [name |-> "LENGTH_REQUIRED", literal |-> 411],
     [name |-> "PRECONDITION_FAILED", literal |-> 412],
     [name |-> "PAYLOAD_TOO_LARGE", literal |-> 413],
     [name |-> "URI_TOO_LONG", literal |-> 414],
     [name |-> "UNSUPPORTED_MEDIA_TYPE", literal |-> 415],
     [name |-> "RANGE_NOT_SATISFIABLE", literal |-> 416],
     [name |-> "EXPECTATION_FAILED", literal |-> 417],
     [name |-> "IM_A_TEAPOT", literal |-> 418],
     [name |-> "MISDIRECTED_REQUEST", literal |-> 421],
     [name |-> "UNPROCESSABLE_ENTRY", literal |-> 422],
     [name |-> "LOCKED", literal |-> 423],
     [name |-> "FAILED_DEPENDENCY", literal |-> 424],
     [name |-> "TOO_EARLY", literal |-> 425],
     [name |-> "UPGRADE_REQUIRED", literal |-> 426],
     [name |-> "PRECONDITION_REQUIRED", literal |-> 428],
     [name |-> "TOO_MANY_REQUESTS", literal |-> 429],
     [name |-> "REQUEST_HEADER_FIELDS_TOO_LARGE", literal |-> 431],
     [name |-> "UNAVAILABLE_FOR_LEGAL_REASONS", literal |-> 451],
     [name |-> "INTERNAL_SERVER_ERROR", literal |-> 500],
     [name |-> "NOT_IMPLEMENTED", literal |-> 501],
     [name |-> "BAD_GATEWAY", literal |-> 502],
     [name |-> "SERVICE_UNAVAILABLE", literal |-> 503],
     [name |-> "GATEWAY_TIMEOUT", literal |-> 504],
     [name |-> "HTTP_VERSION_NOT_SUPPORTED", literal |-> 505],
     [name |-> "VARIANT_ALSO_NEGOTIATES", literal |-> 506],
     [name |-> "INSUFFICIENT_STORAGE", literal |-> 507],
     [name |-> "LOOP_DETECTED", literal |-> 508],
     [name |-> "NOT_EXTENDED", literal |-> 510],
     [name |-> "NETWORK_AUTHENTICATION_REQUIRED", literal |-> 511] >>

\* The type aliases listed by `export type Informational = | ...`, in source order.
InformationalMembers ==
  << "CONTINUE",
     "SWITCHING_PROTOCOLS",
     "PROCESSING",
     "EARLY_HINTS" >>

\* The type aliases listed by `export type Success = | ...`, in source order.
SuccessMembers ==
  << "OK",
     "CREATED",
     "ACCEPTED",
     "NON_AUTHORITATIVE_INFORMATION",
     "NO_CONTENT",
     "RESET_CONTENT",
     "PARTIAL_CONTENT",
     "MULTI_STATUS",
     "ALREADY_REPORTED",
     "IM_USED" >>

\* The type aliases listed by `export type Redirection = | ...`, in source order.
RedirectionMembers ==
  << "MULTIPLE_CHOICES",
     "MOVED_PERMANENTLY",
     "FOUND",
     "SEE_OTHER",
     "NOT_MODIFIED",
     "USE_PROXY",
     "SWITCH_PROXY",
     "TEMPORARY_REDIRECT",
     "PERMANENT_REDIRECT" >>

\* The type aliases listed by `export type ClientError = | ...`, in source order.
ClientErrorMembers ==
  << "BAD_REQUEST",
     "UNAUTHORISED",
     "PAYMENT_REQUIRED",
     "FORBIDDEN",
     "NOT_FOUND",
     "METHOD_NOT_ALLOWED",
     "NOT_ACCEPTABLE",
     "PROXY_AUTHENTICATION_REQUIRED",
     "REQUEST_TIMEOUT",
     "CONFLICT",
     "GONE",
     "LENGTH_REQUIRED",
     "PRECONDITION_FAILED",
     "PAYLOAD_TOO_LARGE",
     "URI_TOO_LONG",
     "UNSUPPORTED_MEDIA_TYPE",
     "RANGE_NOT_SATISFIABLE",
     "EXPECTATION_FAILED",
     "IM_A_TEAPOT",
     "MISDIRECTED_REQUEST",
     "UNPROCESSABLE_ENTRY",
     "LOCKED",
     "FAILED_DEPENDENCY",
     "TOO_EARLY",
     "UPGRADE_REQUIRED",
     "PRECONDITION_REQUIRED",
     "TOO_MANY_REQUESTS",
     "REQUEST_HEADER_FIELDS_TOO_LARGE",
     "UNAVAILABLE_FOR_LEGAL_REASONS" >>

\* The type aliases listed by `export type ServerError = | ...`, in source order.
ServerErrorMembers ==
  << "INTERNAL_SERVER_ERROR",
     "NOT_IMPLEMENTED",
     "BAD_GATEWAY",
     "SERVICE_UNAVAILABLE",
     "GATEWAY_TIMEOUT",
     "HTTP_VERSION_NOT_SUPPORTED",
     "VARIANT_ALSO_NEGOTIATES",
     "INSUFFICIENT_STORAGE",
     "LOOP_DETECTED",
     "NOT_EXTENDED",
     "NETWORK_AUTHENTICATION_REQUIRED" >>

\* ---------------------------------------------------------------------
\* The canonical code table of the specification (section 6), name |-> value.
\* ---------------------------------------------------------------------
CanonicalTable ==
  [ CONTINUE |-> 100,
    SWITCHING_PROTOCOLS |-> 101,
    PROCESSING |-> 102,
    EARLY_HINTS |-> 103,
    OK |-> 200,
    CREATED |-> 201,
    ACCEPTED |-> 202,
    NON_AUTHORITATIVE_INFORMATION |-> 203,
    NO_CONTENT |-> 204,
    RESET_CONTENT |-> 205,
    PARTIAL_CONTENT |-> 206,
    MULTI_STATUS |-> 207,
    ALREADY_REPORTED |-> 208,
    IM_USED |-> 226,
    MULTIPLE_CHOICES |-> 300,
    MOVED_PERMANENTLY |-> 301,
    FOUND |-> 302,
    SEE_OTHER |-> 303,
    NOT_MODIFIED |-> 304,
    USE_PROXY |-> 305,
    SWITCH_PROXY |-> 306,
    TEMPORARY_REDIRECT |-> 307,
    PERMANENT_REDIRECT |-> 308,
    BAD_REQUEST |-> 400,
    UNAUTHORISED |-> 401,
    PAYMENT_REQUIRED |-> 402,
    FORBIDDEN |-> 403,
    NOT_FOUND |-> 404,
    METHOD_NOT_ALLOWED |-> 405,
    NOT_ACCEPTABLE |-> 406,
    PROXY_AUTHENTICATION_REQUIRED |-> 407,
    REQUEST_TIMEOUT |-> 408,
    CONFLICT |-> 409,
    GONE |-> 410,
    LENGTH_REQUIRED |-> 411,
    PRECONDITION_FAILED |-> 412,
    PAYLOAD_TOO_LARGE |-> 413,
    URI_TOO_LONG |-> 414,
    UNSUPPORTED_MEDIA_TYPE |-> 415,
    RANGE_NOT_SATISFIABLE |-> 416,
    EXPECTATION_FAILED |-> 417,
    IM_A_TEAPOT |-> 418,
    MISDIRECTED_REQUEST |-> 421,
    UNPROCESSABLE_ENTRY |-> 422,
    LOCKED |-> 423,
    FAILED_DEPENDENCY |-> 424,
    TOO_EARLY |-> 425,
    UPGRADE_REQUIRED |-> 426,
    PRECONDITION_REQUIRED |-> 428,
    TOO_MANY_REQUESTS |-> 429,
    REQUEST_HEADER_FIELDS_TOO_LARGE |-> 431,
    UNAVAILABLE_FOR_LEGAL_REASONS |-> 451,
    INTERNAL_SERVER_ERROR |-> 500,
    NOT_IMPLEMENTED |-> 501,
    BAD_GATEWAY |-> 502,
    SERVICE_UNAVAILABLE |-> 503,
    GATEWAY_TIMEOUT |-> 504,
    HTTP_VERSION_NOT_SUPPORTED |-> 505,
    VARIANT_ALSO_NEGOTIATES |-> 506,
    INSUFFICIENT_STORAGE |-> 507,
    LOOP_DETECTED |-> 508,
    NOT_EXTENDED |-> 510,
    NETWORK_AUTHENTICATION_REQUIRED |-> 511 ]

\* ---------------------------------------------------------------------
\* What the declarations mean
\* ---------------------------------------------------------------------
Range(s) == {s[i] : i \in DOMAIN s}

\* The module namespace object a list of `export const` declarations gives
\* `import * as HTTP from "HTTPStatusCodes"`: one property per declared
\* name; type aliases are erased at run time and contribute no property.
NamespaceOf(decls) ==
  [n \in {decls[i].name : i \in DOMAIN decls} |->
     decls[CHOOSE i \in DOMAIN decls : decls[i].name = n].value]

\* ValueDeclarations with the declaration of `name` replaced by `decl`.
Redeclared(name, decl) ==
  [i \in DOMAIN ValueDeclarations |->
     IF ValueDeclarations[i].name = name THEN decl ELSE ValueDeclarations[i]]

\* Faulty variants of the export list, each one slip of the keyboard away
\* from the source: a name in its American spelling, a name in the spelling
\* of the RFC, a status left out, a value repeated, a value off by one.
exportsAmericanSpelling ==
  NamespaceOf(Redeclared("UNAUTHORISED",
                         [name |-> "UNAUTHORIZED", value |-> UNAUTHORISED]))

exportsRfcSpelling ==
  NamespaceOf(Redeclared("UNPROCESSABLE_ENTRY",
                         [name |-> "UNPROCESSABLE_ENTITY",
                          value |-> UNPROCESSABLE_ENTRY]))

exportsWithoutTeapot ==
  NamespaceOf(SelectSeq(ValueDeclarations, LAMBDA d : d.name # "IM_A_TEAPOT"))

exportsRepeatedValue ==
  NamespaceOf(Redeclared("NOT_FOUND",
                         [name |-> "NOT_FOUND", value |-> FORBIDDEN]))

exportsOffByOne ==
  NamespaceOf(Redeclared("MISDIRECTED_REQUEST",
                         [name |-> "MISDIRECTED_REQUEST",
                          value |-> MISDIRECTED_REQUEST - 1]))

exportsTwoNamesOneCode ==
  NamespaceOf(Redeclared("FOUND",
                         [name |-> "FOUND", value |-> MOVED_PERMANENTLY]))

exports == NamespaceOf(ValueDeclarations)

\* A faulty variant of the alias list: the literal of IM_USED typed one past
\* ALREADY_REPORTED, the declaration above it, while its constant is right.
TypeLiteralOutOfStep(n) ==
  IF n = "IM_USED"
  THEN ALREADY_REPORTED + 1
  ELSE TypeDeclarations[CHOOSE i \in DOMAIN TypeDeclarations :
                          TypeDeclarations[i].name = n].literal

\* The literal a type alias stands for.
TypeLiteral(n) ==
  TypeDeclarations[CHOOSE i \in DOMAIN TypeDeclarations :
                     TypeDeclarations[i].name = n].literal

\* A union type is the set of the literals of the aliases it lists.
Informational == {TypeLiteral(n) : n \in Range(InformationalMembers)}

Success == {TypeLiteral(n) : n \in Range(SuccessMembers)}

Redirection == {TypeLiteral(n) : n \in Range(RedirectionMembers)}

\* Faulty variants of the ClientError union: a server status filed under it,
\* and a status forgotten.
ClientErrorMisfiled ==
  {TypeLiteral(n) : n \in Range(ClientErrorMembers) \cup {"NOT_IMPLEMENTED"}}

ClientErrorWithoutTeapot ==
  {TypeLiteral(n) : n \in Range(ClientErrorMembers) \ {"IM_A_TEAPOT"}}

ClientErrorWithGateway ==
  {TypeLiteral(n) : n \in Range(ClientErrorMembers) \cup {"BAD_GATEWAY"}}

ClientError == {TypeLiteral(n) : n \in Range(ClientErrorMembers)}

ServerError == {TypeLiteral(n) : n \in Range(ServerErrorMembers)}

HTTPStatus ==
  Informational \cup Success \cup Redirection \cup ClientError \cup ServerError

\* The five categories in the order the source declares them.
Categories ==
  <<"Informational", "Success", "Redirection", "ClientError", "ServerError">>

CategoryType(K) ==
  CASE K = "Informational" -> Informational
    [] K = "Success"       -> Success
    [] K = "Redirection"   -> Redirection
    [] K = "ClientError"   -> ClientError
    [] K = "ServerError"   -> ServerError
    [] K = "HTTPStatus"    -> HTTPStatus
    [] OTHER               -> {}

CategoryMembers(K) ==
  CASE K = "Informational" -> InformationalMembers
    [] K = "Success"       -> SuccessMembers
    [] K = "Redirection"   -> RedirectionMembers
    [] K = "ClientError"   -> ClientErrorMembers
    [] K = "ServerError"   -> ServerErrorMembers
    [] OTHER               -> <<>>

\* The hundreds digit the specification and the README give each category.
HundredsDigit(K) ==
  CASE K = "Informational" -> 1
    [] K = "Success"       -> 2
    [] K = "Redirection"   -> 3
    [] K = "ClientError"   -> 4
    [] K = "ServerError"   -> 5
    [] OTHER               -> 0

\* ---------------------------------------------------------------------
\* The Status Code Registry of the specification, over the declarations.
\* The source has no lookup functions: these follow the specification's
\* contract, reading the constants for (name, code) and the union types for
\* the category.  The description field is informational and left out.
\* ---------------------------------------------------------------------
NotFound == [kind |-> "NotFound"]

CategoryOf(code) ==
  IF \E i \in DOMAIN Categories : code \in CategoryType(Categories[i])
  THEN Categories[CHOOSE i \in DOMAIN Categories :
                    /\ code \in CategoryType(Categories[i])
                    /\ \A j \in 1..(i - 1) : code \notin CategoryType(Categories[j])]
  ELSE "None"

StatusEntry(n) ==
  [code |-> exports[n], name |-> n, category |-> CategoryOf(exports[n])]

BuildRegistry == {StatusEntry(n) : n \in DOMAIN exports}

RECURSIVE SortByCode(_)
SortByCode(S) ==
  IF S = {} THEN <<>>
  ELSE LET m == CHOOSE e \in S : \A f \in S : e.code <= f.code
       IN  <<m>> \o SortByCode(S \ {m})

lookupByCode(reg, code) ==
  IF \E e \in reg : e.code = code
  THEN [kind |-> "entry", entry |-> CHOOSE e \in reg : e.code = code]
  ELSE NotFound

lookupByName(reg, name) ==
  IF \E e \in reg : e.name = name
  THEN [kind |-> "entry", entry |-> CHOOSE e \in reg : e.name = name]
  ELSE NotFound

listByCategory(reg, category) ==
  SortByCode({e \in reg : e.category = category})

allEntries(reg) == SortByCode(reg)

\* ---------------------------------------------------------------------
\* Inputs of the host program
\* ---------------------------------------------------------------------
MaxCode == 1000

CodeInputs == 0..MaxCode

BadNames ==
  {"not_found", "UNAUTHORIZED", "UNPROCESSABLE_ENTITY", "ClientError",
   "NOT_A_STATUS", "Not_Found", "HTTPStatus"}

NameInputs == DOMAIN exports \cup DOMAIN CanonicalTable \cup BadNames

GroupInputs == Range(Categories) \cup {"HTTPStatus", "SeverError"}

TypeInputs == Range(Categories) \cup {"HTTPStatus"}

\* ---------------------------------------------------------------------
\* State machine
\* ---------------------------------------------------------------------
\* The host program is between two uses of the module.
Idle == [op |-> "idle"]

NoResult == [kind |-> "none"]

\* Concurrent readers of the registry: each holds its own call and result.
NumReaders == 2

Readers == 1..NumReaders

Init ==
  /\ HTTP = exports
  /\ registry = BuildRegistry
  /\ call = Idle
  /\ result = NoResult
  /\ calls = [r \in Readers |-> Idle]
  /\ results = [r \in Readers |-> NoResult]

\* HTTP.n : a property read on the module namespace.
Read(n) ==
  /\ call = Idle
  /\ call' = [op |-> "read", name |-> n]
  /\ result' = IF n \in DOMAIN HTTP
               THEN [kind |-> "value", value |-> HTTP[n]]
               ELSE [kind |-> "undefined"]
  /\ UNCHANGED <<HTTP, registry, calls, results>>

\* HTTP.K.n : the README's grouped access.  HTTP.K is undefined unless K is
\* a value export, and a property read on undefined throws; a property read
\* on a number yields undefined.
GroupAccess(K, n) ==
  /\ call = Idle
  /\ call' = [op |-> "groupAccess", group |-> K, name |-> n]
  /\ result' = IF K \in DOMAIN HTTP
               THEN [kind |-> "undefined"]
               ELSE [kind |-> "TypeError"]
  /\ UNCHANGED <<HTTP, registry, calls, results>>

\* const s: HTTP.K = HTTP.n; : the compiler accepts the assignment iff the
\* literal type of the constant is a member of the union K.
TypeCheck(K, n) ==
  /\ call = Idle
  /\ call' = [op |-> "typeCheck", type |-> K, name |-> n]
  /\ result' = IF HTTP[n] \in CategoryType(K)
               THEN [kind |-> "accepted"]
               ELSE [kind |-> "rejected"]
  /\ UNCHANGED <<HTTP, registry, calls, results>>

LookupByCode(c) ==
  /\ call = Idle
  /\ call' = [op |-> "lookupByCode", code |-> c]
  /\ result' = lookupByCode(registry, c)
  /\ UNCHANGED <<HTTP, registry, calls, results>>

LookupByName(n) ==
  /\ call = Idle
  /\ call' = [op |-> "lookupByName", name |-> n]
  /\ result' = lookupByName(registry, n)
  /\ UNCHANGED <<HTTP, registry, calls, results>>

ListByCategory(k) ==
  /\ call = Idle
  /\ call' = [op |-> "listByCategory", category |-> k]
  /\ result' = [kind |-> "list", list |-> listByCategory(registry, k)]
  /\ UNCHANGED <<HTTP, registry, calls, results>>

AllEntries ==
  /\ call = Idle
  /\ call' = [op |-> "allEntries"]
  /\ result' = [kind |-> "list", list |-> allEntries(registry)]
  /\ UNCHANGED <<HTTP, registry, calls, results>>

\* The host program has used the result and goes on.
Return ==
  /\ call # Idle
  /\ call' = Idle
  /\ result' = NoResult
  /\ UNCHANGED <<HTTP, registry, calls, results>>

Next ==
  \/ \E n \in NameInputs : Read(n)
  \/ \E K \in GroupInputs : \E n \in DOMAIN HTTP : GroupAccess(K, n)
  \/ \E K \in TypeInputs : \E n \in DOMAIN HTTP : TypeCheck(K, n)
  \/ \E c \in CodeInputs : LookupByCode(c)
  \/ \E n \in NameInputs : LookupByName(n)
  \/ \E i \in DOMAIN Categories : ListByCategory(Categories[i])
  \/ AllEntries
  \/ Return

Spec == Init /\ [][Next]_vars

\* ---------------------------------------------------------------------
\* Concurrent readers.  A reader invokes a lookup, the lookup completes
\* against the table as it is at that moment, and the reader goes on; the
\* steps of different readers interleave freely.  A host may also attempt
\* to write an export.
\* ---------------------------------------------------------------------
Pending == [kind |-> "pending"]

ReaderLookups ==
  {[op |-> "lookupByCode", code |-> c] : c \in {404, 420}}
    \cup {[op |-> "lookupByName", name |-> n] : n \in {"NOT_FOUND", "not_found"}}
    \cup {[op |-> "listByCategory", category |-> k] :
             k \in {"ClientError", "ServerError"}}
    \cup {[op |-> "allEntries"]}

WriteAttempts ==
  {[name |-> "NOT_FOUND", value |-> 0], [name |-> "NOT_A_STATUS", value |-> 600]}

\* What a lookup returns over the table reg.
Eval(reg, c) ==
  CASE c.op = "lookupByCode"   -> lookupByCode(reg, c.code)
    [] c.op = "lookupByName"   -> lookupByName(reg, c.name)
    [] c.op = "listByCategory" ->
         [kind |-> "list", list |-> listByCategory(reg, c.category)]
    [] c.op = "allEntries"     -> [kind |-> "list", list |-> allEntries(reg)]

Invoke(r, c) ==
  /\ calls[r] = Idle
  /\ calls' = [calls EXCEPT ![r] = c]
  /\ results' = [results EXCEPT ![r] = Pending]
  /\ UNCHANGED <<HTTP, registry, call, result>>

Complete(r) ==
  /\ results[r] = Pending
  /\ results' = [results EXCEPT ![r] = Eval(registry, calls[r])]
  /\ UNCHANGED <<HTTP, registry, call, result, calls>>

\* The table a namespace ns gives: one entry per property.
RegistryOf(ns) ==
  {[code |-> ns[n], name |-> n, category |-> CategoryOf(ns[n])] : n \in DOMAIN ns}

\* A faulty variant of the exports: bindings declared writable on an
\* extensible object read live by the lookups, so that a write goes through.
AssignWritable(r, w) ==
  /\ calls[r] = Idle
  /\ calls' = [calls EXCEPT ![r] = [op |-> "assign", name |-> w.name,
                                     value |-> w.value]]
  /\ results' = [results EXCEPT ![r] = [kind |-> "assigned"]]
  /\ HTTP' = [n \in DOMAIN HTTP \cup {w.name} |->
               IF n = w.name THEN w.value ELSE HTTP[n]]
  /\ registry' = RegistryOf(HTTP')
  /\ UNCHANGED <<call, result>>

\* HTTP.name = value : every export is a `const` binding and the module
\* namespace is not extensible, so the write throws (the compiler rejects
\* it too) and nothing changes.
Assign(r, w) ==
  /\ calls[r] = Idle
  /\ calls' = [calls EXCEPT ![r] = [op |-> "assign", name |-> w.name,
                                     value |-> w.value]]
  /\ results' = [results EXCEPT ![r] = [kind |-> "TypeError"]]
  /\ UNCHANGED <<HTTP, registry, call, result>>

ReaderReturn(r) ==
  /\ calls[r] # Idle
  /\ results[r] # Pending
  /\ calls' = [calls EXCEPT ![r] = Idle]
  /\ results' = [results EXCEPT ![r] = NoResult]
  /\ UNCHANGED <<HTTP, registry, call, result>>

ReadersNext ==
  \/ \E r \in Readers : \E c \in ReaderLookups : Invoke(r, c)
  \/ \E r \in Readers : Complete(r)
  \/ \E r \in Readers : \E w \in WriteAttempts : Assign(r, w)
  \/ \E r \in Readers : ReaderReturn(r)

ReadersSpec == Init /\ [][ReadersNext]_vars

\* ---------------------------------------------------------------------
\* Properties
\* ---------------------------------------------------------------------
Codes(reg) == {e.code : e \in reg}

StrictlyAscending(seq) ==
  \A i \in 1..(Len(seq) - 1) : seq[i].code < seq[i + 1].code

\* C1: the (name, value) pairs the module exports as constants are exactly
\* the canonical table: reading a listed name gives the listed integer, and
\* a name outside the table is no export.
C1_ExportsAreCanonicalTable ==
  /\ HTTP = CanonicalTable
  /\ {d.name : d \in Range(ValueDeclarations)} = DOMAIN CanonicalTable
  /\ call.op = "read" =>
       IF call.name \in DOMAIN CanonicalTable
       THEN result = [kind |-> "value", value |-> CanonicalTable[call.name]]
       ELSE result = [kind |-> "undefined"]

C1_Witness ==
  /\ call = [op |-> "read", name |-> "NOT_FOUND"]
  /\ result = [kind |-> "value", value |-> 404]

\* C2 as stated: allEntries() has as many elements as the canonical table
\* has names, that number is 62, and it is strictly ascending by code.
C2_AllEntries62 ==
  call.op = "allEntries" =>
    /\ Len(result.list) = Cardinality(DOMAIN CanonicalTable)
    /\ Cardinality(DOMAIN CanonicalTable) = 62
    /\ StrictlyAscending(result.list)

\* C2 (amended): allEntries() has as many elements as the canonical table
\* has names, that number is 63, and it is strictly ascending by code, so
\* no code occurs twice.
C2_AllEntries63 ==
  call.op = "allEntries" =>
    /\ Len(result.list) = Cardinality(DOMAIN CanonicalTable)
    /\ Cardinality(DOMAIN CanonicalTable) = 63
    /\ StrictlyAscending(result.list)
    /\ \A i, j \in DOMAIN result.list :
         result.list[i].code = result.list[j].code => i = j

C2_Witness ==
  /\ call.op = "allEntries"
  /\ Len(result.list) = 63
  /\ result.list[1].code = 100
  /\ result.list[63].code = 511

\* C3: every registered code has a hundreds digit in 1..5 and is a member
\* of exactly the category union type of that digit (the compiler accepts
\* the constant as a K iff K is the category of its hundreds digit), and
\* every member of a category union type has the digit of that category.
C3_CategoryIsHundredsDigit ==
  /\ \A n \in DOMAIN HTTP :
       /\ (HTTP[n] \div 100) \in 1..5
       /\ \A i \in DOMAIN Categories :
            (HTTP[n] \in CategoryType(Categories[i]))
              <=> (HundredsDigit(Categories[i]) = HTTP[n] \div 100)
  /\ \A i \in DOMAIN Categories :
       \A c \in CategoryType(Categories[i]) :
         c \div 100 = HundredsDigit(Categories[i])
  /\ (call.op = "typeCheck" /\ call.type # "HTTPStatus") =>
       ((result.kind = "accepted")
          <=> (HundredsDigit(call.type) = HTTP[call.name] \div 100))

C3_Witness ==
  /\ call = [op |-> "typeCheck", type |-> "ClientError", name |-> "NOT_FOUND"]
  /\ result.kind = "accepted"

\* C4: the name-to-code mapping is one-to-one: no two distinct names are
\* bound to the same code (the value read under a name is the value of no
\* other name), and no name is declared twice.
C4_NamesAndCodesOneToOne ==
  /\ \A n, m \in DOMAIN HTTP : HTTP[n] = HTTP[m] => n = m
  /\ \A i, j \in DOMAIN ValueDeclarations :
       \/ i = j
       \/ /\ ValueDeclarations[i].name # ValueDeclarations[j].name
          /\ ValueDeclarations[i].value # ValueDeclarations[j].value
  /\ (call.op = "read" /\ result.kind = "value") =>
       \A m \in DOMAIN HTTP : HTTP[m] = result.value => m = call.name

C4_Witness ==
  /\ call = [op |-> "read", name |-> "FOUND"]
  /\ result = [kind |-> "value", value |-> 302]

\* C5: HTTPStatus is the union of the five category types, which are
\* pairwise disjoint, and equals the set of values of the exported
\* constants: every constant is accepted as an HTTPStatus and lies in
\* exactly one category, and HTTPStatus holds no other value.
C5_HTTPStatusIsAllConstants ==
  /\ HTTPStatus = UNION {CategoryType(Categories[i]) : i \in DOMAIN Categories}
  /\ \A i, j \in DOMAIN Categories :
       i # j => CategoryType(Categories[i]) \cap CategoryType(Categories[j]) = {}
  /\ HTTPStatus = Range(HTTP)
  /\ \A n \in DOMAIN HTTP :
       Cardinality({i \in DOMAIN Categories :
                      HTTP[n] \in CategoryType(Categories[i])}) = 1
  /\ (call.op = "typeCheck" /\ call.type = "HTTPStatus") =>
       result.kind = "accepted"

C5_Witness ==
  /\ call = [op |-> "typeCheck", type |-> "HTTPStatus", name |-> "IM_A_TEAPOT"]
  /\ result.kind = "accepted"

\* Codes that fall in gaps of the table, and one outside [100, 599].
GapCodes == {104, 209, 309, 419, 420, 427, 430, 509, 999}

\* C6: lookupByCode(c) fails with NotFound for every integer c that is not
\* a registered code, in a gap of the table or outside [100, 599], and a
\* lookup that succeeds returns the entry of exactly c.
C6_UnregisteredCodeNotFound ==
  call.op = "lookupByCode" =>
    /\ call.code \notin Range(HTTP) => result = NotFound
    /\ call.code \in GapCodes => result = NotFound
    /\ (call.code < 100 \/ call.code > 599) => result = NotFound
    /\ result.kind = "entry" => result.entry.code = call.code

C6_Witness ==
  /\ call = [op |-> "lookupByCode", code |-> 420]
  /\ result = NotFound

\* Names that differ from a registered one in case or spelling, or name no status.
WrongNames ==
  {"not_found", "UNAUTHORIZED", "UNPROCESSABLE_ENTITY", "ClientError",
   "NOT_A_STATUS"}

\* C7: lookupByName(n) succeeds only when n equals a registered name
\* character for character, and fails with NotFound otherwise: for a name
\* in another letter case or spelling, a category name, NOT_A_STATUS.
C7_InexactNameNotFound ==
  call.op = "lookupByName" =>
    /\ (result.kind = "entry") <=> (call.name \in DOMAIN CanonicalTable)
    /\ result.kind = "entry" => result.entry.name = call.name
    /\ result.kind # "entry" => result = NotFound
    /\ call.name \in WrongNames => result = NotFound

C7_Witness ==
  /\ call = [op |-> "lookupByName", name |-> "UNAUTHORIZED"]
  /\ result = NotFound

\* C8: lookupByCode and lookupByName are mutually inverse on the registry:
\* the name of the entry found by a code leads back to that code, the code
\* of the entry found by a name leads back to that name, every registered
\* code and name is found, and 404 and NOT_FOUND find each other.
C8_LookupsMutuallyInverse ==
  /\ (call.op = "lookupByCode" /\ call.code \in Range(HTTP)) =>
       /\ result.kind = "entry"
       /\ lookupByName(registry, result.entry.name).kind = "entry"
       /\ lookupByName(registry, result.entry.name).entry.code = call.code
  /\ (call.op = "lookupByName" /\ call.name \in DOMAIN HTTP) =>
       /\ result.kind = "entry"
       /\ lookupByCode(registry, result.entry.code).kind = "entry"
       /\ lookupByCode(registry, result.entry.code).entry.name = call.name
  /\ (call.op = "lookupByCode" /\ call.code = 404) =>
       result.kind = "entry" /\ result.entry.name = "NOT_FOUND"
  /\ (call.op = "lookupByName" /\ call.name = "NOT_FOUND") =>
       result.kind = "entry" /\ result.entry.code = 404

C8_Witness ==
  /\ call = [op |-> "lookupByName", name |-> "NOT_FOUND"]
  /\ result.kind = "entry"
  /\ result.entry.code = 404
  /\ lookupByCode(registry, 404) = result

\* C9: listByCategory(k) holds exactly the registered entries whose code
\* has the hundreds digit d of k, strictly ascending, every code within
\* [100*d, 100*d + 99]; for ClientError the first code is 400 and the last
\* 451; and the five lists concatenated in category order are allEntries().
C9_ListByCategory ==
  /\ call.op = "listByCategory" =>
       LET l == result.list
           d == HundredsDigit(call.category)
       IN  /\ Range(l) = {e \in registry : e.code \div 100 = d}
           /\ StrictlyAscending(l)
           /\ \A i \in DOMAIN l :
                /\ l[i].code \in (100 * d)..(100 * d + 99)
                /\ l[i].category = call.category
           /\ call.category = "ClientError" =>
                /\ l # <<>>
                /\ l[1].code = 400
                /\ l[Len(l)].code = 451
  /\ call.op = "allEntries" =>
       result.list = listByCategory(registry, Categories[1])
                       \o listByCategory(registry, Categories[2])
                       \o listByCategory(registry, Categories[3])
                       \o listByCategory(registry, Categories[4])
                       \o listByCategory(registry, Categories[5])

C9_Witness ==
  /\ call = [op |-> "listByCategory", category |-> "ClientError"]
  /\ Len(result.list) = 29
  /\ result.list[1].code = 400
  /\ result.list[29].code = 451

\* C10 as stated: every category exposes its member codes as values reached
\* through the grouping: HTTP.K.N evaluates to the integer code of N for
\* every member N of category K (ServerError.NETWORK_AUTHENTICATION_REQUIRED
\* is 511).
C10_GroupedAccessGivesCode ==
  (/\ call.op = "groupAccess"
   /\ call.group \in Range(Categories)
   /\ call.name \in Range(CategoryMembers(call.group))) =>
    result = [kind |-> "value", value |-> HTTP[call.name]]

\* C13: for every exported name the constant and the type alias of that name
\* carry the same integer literal, so each category union type, built from
\* the aliases, is the set of the run-time values of the constants it lists
\* by name: the compiler accepts every constant as the category that lists
\* it and as an HTTPStatus.
C13_ConstAndTypeAgree ==
  /\ Len(ValueDeclarations) = Len(TypeDeclarations)
  /\ \A i \in DOMAIN ValueDeclarations :
       /\ ValueDeclarations[i].name = TypeDeclarations[i].name
       /\ ValueDeclarations[i].value = TypeDeclarations[i].literal
  /\ \A n \in DOMAIN HTTP : TypeLiteral(n) = HTTP[n]
  /\ \A i \in DOMAIN Categories :
       CategoryType(Categories[i])
         = {HTTP[n] : n \in Range(CategoryMembers(Categories[i]))}
  /\ Range(HTTP) \subseteq HTTPStatus
  /\ (/\ call.op = "typeCheck"
      /\ \/ call.type = "HTTPStatus"
         \/ call.name \in Range(CategoryMembers(call.type))) =>
       result.kind = "accepted"

C13_Witness ==
  /\ call = [op |-> "typeCheck", type |-> "Success", name |-> "IM_USED"]
  /\ result.kind = "accepted"

Completed(r) == results[r].kind \notin {"none", "pending"}

IsLookup(c) ==
  c.op \in {"lookupByCode", "lookupByName", "listByCategory", "allEntries"}

\* C11: after any interleaving of lookups by the readers, successful or
\* failing, and of attempted writes, the table equals its value at
\* initialization: no entry is added, removed or modified.
C11_RegistryNeverChanges ==
  /\ HTTP = exports
  /\ registry = BuildRegistry
  /\ Cardinality(registry) = Len(ValueDeclarations)

C11_Witness ==
  /\ calls[1] = [op |-> "lookupByCode", code |-> 420]
  /\ results[1] = NotFound
  /\ calls[2] = [op |-> "assign", name |-> "NOT_FOUND", value |-> 0]
  /\ results[2].kind = "TypeError"
  /\ registry = BuildRegistry

=============================================================================
